---- MODULE Spec2Model ----
(***************************************************************************)
(* SafeRoad-Guardian: the LangGraph pipeline supervisor -> vision ->       *)
(* prioritization -> report of main.py, and the ChromaDB-backed memory     *)
(* bank of memory/memory_bank.py that it shares between runs.              *)
(*                                                                         *)
(* Texts (rendered findings, audit messages, report lines) are sequences   *)
(* of words, so the substring tests of the code are word-membership tests. *)
(* Time is an integer clock; one unit is one day of datetime.now().        *)
(***************************************************************************)
EXTENDS Integers, Sequences, FiniteSets, TLC

\* ------------------------------------------------------------------ bounds
MaxTime == 9        \* the clock stops advancing here
MaxRuns == 2        \* pipeline runs per behaviour
MaxDirect == 2      \* direct save_report calls per behaviour
MaxLimit == 2       \* largest limit passed to get_location_history

\* ------------------------------------------------------- program constants
N_RESULTS == 10     \* n_results of the recency query
RECENT_DAYS == 7    \* days= passed by prioritization_node

Delays == {1, RECENT_DAYS - 1, RECENT_DAYS, RECENT_DAYS + 1}

Locations == {"6.9271,79.8612", "7.2906,80.6337"}
OtherLocation == "7.2906,80.6337"

GoodImage == "sample_images/pothole_colombo.jpg"
BadImage == "sample_images/missing.jpg"
ImagePaths == {"", GoodImage, BadImage}

AgentStateKeys ==
  {"image_path", "gps", "messages", "hazards", "signs", "should_report",
   "report", "error"}

\* ------------------------------------------------------------ dict helpers
Put(d, k, v) == [x \in (DOMAIN d) \cup {k} |-> IF x = k THEN v ELSE d[x]]

Get(d, k, default) == IF k \in DOMAIN d THEN d[k] ELSE default

Contains(text, word) == \E i \in DOMAIN text : text[i] = word

Truthy(text) == text # <<>>

TruthyStr(str) == str # ""

Min(a, b) == IF a < b THEN a ELSE b

\* ------------------------------------------------------------ vision tools
\* boxes: the labels of the boxes the YOLO model returned, in order
RECURSIVE JoinDetections(_)
JoinDetections(dets) ==
  IF dets = <<>> THEN <<>>
  ELSE IF Len(dets) = 1 THEN dets[1]
  ELSE dets[1] \o <<"|">> \o JoinDetections(Tail(dets))

HazardDetection(label) == <<label, "(conf", "0.91,", "size", "2500px)">>

SignDetection(label) == <<label, "(good,", "conf", "0.88)">>

detect_road_hazards(readable, boxes) ==
  IF ~readable THEN <<"Hazards:", "Error", "reading", "image">>
  ELSE LET detections == [i \in DOMAIN boxes |-> HazardDetection(boxes[i])]
       IN  <<"Hazards:">> \o
             (IF detections # <<>> THEN JoinDetections(detections)
              ELSE <<"None">>)

detect_and_assess_signs(readable, boxes) ==
  IF ~readable THEN <<"Signs:", "Error", "reading", "image">>
  ELSE LET detections == [i \in DOMAIN boxes |-> SignDetection(boxes[i])]
       IN  <<"Signs:">> \o
             (IF detections # <<>> THEN JoinDetections(detections)
              ELSE <<"None">>)

Readable(image_path) == image_path = GoodImage

HazardBoxes == {<<>>, <<"pothole">>}
SignBoxes == {<<>>, <<"hospital">>}

\* ------------------------------------------------------------- memory bank
DocId(gps, timestamp) == <<gps, timestamp>>

Record(gps, hazards, signs, image_path, timestamp) ==
  [id |-> DocId(gps, timestamp), gps |-> gps, image |-> image_path,
   timestamp |-> timestamp, hazards |-> hazards, signs |-> signs]

\* collection.add: "stored" writes the record unless its id is already
\* present (the add is then dropped); "raise" is a failed add.
AddOutcomes == {"stored", "raise"}

CollectionAdd_replaces(coll, rec) ==
  {r \in coll : r.gps # rec.gps} \cup {rec}

CollectionAdd(coll, rec) ==
  IF \E r \in coll : r.id = rec.id THEN coll ELSE coll \cup {rec}

save_report_lost(coll, gps, hazards, signs, image_path, clock, add) == coll

save_report(coll, gps, hazards, signs, image_path, clock, add) ==
  IF add = "raise" THEN coll
  ELSE CollectionAdd(coll, Record(gps, hazards, signs, image_path, clock))

\* collection.query(query_texts, n_results): the n_results records nearest
\* to the query text. The documents hold no location, so which records are
\* nearest is decided by the embedding alone: any choice of that many.
QueryOutcomes(coll, n) ==
  LET k == Min(n, Cardinality(coll))
  IN  {[raised |-> FALSE, rows |-> coll \ drop] :
         drop \in {d \in SUBSET coll : Cardinality(d) = Cardinality(coll) - k}}
      \cup {[raised |-> TRUE, rows |-> {}]}

was_recently_reported_fail_closed(results, gps, days, clock) ==
  IF results.raised THEN TRUE
  ELSE IF results.rows = {} THEN FALSE
  ELSE LET cutoff_date == clock - days
       IN  \E metadata \in results.rows :
             metadata.timestamp > cutoff_date /\ metadata.gps = gps

was_recently_reported_any_gps(results, gps, days, clock) ==
  IF results.raised THEN FALSE
  ELSE IF results.rows = {} THEN FALSE
  ELSE LET cutoff_date == clock - days
       IN  \E metadata \in results.rows : metadata.timestamp > cutoff_date

was_recently_reported(results, gps, days, clock) ==
  IF results.raised THEN FALSE
  ELSE IF results.rows = {} THEN FALSE
  ELSE LET cutoff_date == clock - days
       IN  \E metadata \in results.rows :
             metadata.timestamp > cutoff_date /\ metadata.gps = gps

\* collection.query(...)["metadatas"][0] as a list: the n_results nearest
\* records, nearest first. The order is the embedding's, as is the choice.
QueryRanked(coll, n) ==
  LET k == Min(n, Cardinality(coll))
  IN  {[raised |-> FALSE, rows |-> f] :
         f \in {g \in [1..k -> coll] :
                  \A i, j \in 1..k : i # j => g[i] # g[j]}}
      \cup {[raised |-> TRUE, rows |-> <<>>]}

get_location_history(results) ==
  IF results.raised THEN <<>>
  ELSE IF results.rows # <<>> THEN results.rows
  ELSE <<>>

\* collection.get(limit=limit)["metadatas"]: up to limit records of the
\* store, in the store's own order
CollectionGet(coll, limit) == QueryRanked(coll, limit)

ALL_LIMIT == 100

get_all_reports(results) ==
  IF results.raised THEN <<>>
  ELSE IF results.rows # <<>> THEN results.rows
  ELSE <<>>

\* ---------------------------------------------------------------- LLM calls
\* llm.invoke either raises or returns a reply; content is its words.
SupervisorReplies ==
  {[raised |-> TRUE, content |-> <<>>],
   [raised |-> FALSE, content |-> <<"Starting", "road", "safety", "analysis">>]}

NoReply == [raised |-> TRUE, content |-> <<>>]

SeverityReplies ==
  {[raised |-> TRUE, content |-> <<>>]} \cup
  {[raised |-> FALSE, content |-> c] :
     c \in {<<>>, <<"HIGH">>, <<"MEDIUM">>, <<"LOW">>, <<"low">>,
            <<"Severity:", "MEDIUM">>}}

Upper(word) ==
  CASE word = "low" -> "LOW"
    [] word = "medium" -> "MEDIUM"
    [] word = "high" -> "HIGH"
    [] word = "Severity:" -> "SEVERITY:"
    [] OTHER -> word

\* ------------------------------------------------------------------- agents
AppendMessage(st, msg) == Put(st, "messages", Append(st["messages"], msg))

supervisor_node_llm_decides(st, reply) ==
  IF reply.raised
  THEN Put(AppendMessage(st,
             <<"Supervisor Agent ->", "ERROR: No image provided">>),
           "error", TRUE)
  ELSE Put(AppendMessage(st,
             <<"Supervisor Agent (Gemini) ->">> \o reply.content),
           "error", FALSE)

supervisor_node(st, reply) ==
  LET s1 == IF ~reply.raised
            THEN AppendMessage(st,
                   <<"Supervisor Agent (Gemini) ->">> \o reply.content)
            ELSE AppendMessage(st,
                   <<"Supervisor Agent ->",
                     "Initiating road safety analysis pipeline">>)
  IN  IF "image_path" \notin DOMAIN s1 \/ ~TruthyStr(s1["image_path"])
      THEN Put(AppendMessage(s1,
                 <<"Supervisor Agent ->", "ERROR: No image provided">>),
               "error", TRUE)
      ELSE Put(AppendMessage(s1,
                 <<"Supervisor Agent ->", "Validated input:",
                   s1["image_path"]>>),
               "error", FALSE)

route_supervisor_ignores_error(st) == "vision"

route_supervisor(st) == IF Get(st, "error", FALSE) THEN "END" ELSE "vision"

vision_node_sets_should_report(st, hazards, signs) ==
  LET s1 == Put(st, "hazards", hazards)
      s2 == Put(s1, "signs", signs)
      s3 == AppendMessage(s2, <<"Vision Agent ->">> \o hazards)
  IN  Put(AppendMessage(s3, <<"Vision Agent ->">> \o signs),
          "should_report", TRUE)

\* both results land in the hazards field
vision_node_one_field(st, hazards, signs) ==
  LET s1 == Put(st, "hazards", hazards)
      s2 == Put(s1, "hazards", signs)
      s3 == AppendMessage(s2, <<"Vision Agent ->">> \o hazards)
  IN  AppendMessage(s3, <<"Vision Agent ->">> \o signs)

vision_node(st, hazards, signs) ==
  LET s1 == Put(st, "hazards", hazards)
      s2 == Put(s1, "signs", signs)
      s3 == AppendMessage(s2, <<"Vision Agent ->">> \o hazards)
  IN  AppendMessage(s3, <<"Vision Agent ->">> \o signs)

SeverityWord_unvalidated(reply) == Upper(reply.content[1])

\* severity.strip().upper().split()[0]; an empty reply has no first word
SeverityWord(reply) ==
  LET severity == Upper(reply.content[1])
  IN  IF severity \notin {"HIGH", "MEDIUM", "LOW"} THEN "HIGH" ELSE severity

AssessorFails(reply) == reply.raised \/ reply.content = <<>>

\* low priority only when the signs are empty too
prioritization_node_both(st, recent, reply) ==
  LET hazards == Get(st, "hazards", <<>>)
      signs == Get(st, "signs", <<>>)
  IN  IF recent
      THEN AppendMessage(Put(st, "should_report", FALSE),
             <<"Prioritization Agent ->",
               "Location recently reported (within 7 days)", "suppressed">>)
      ELSE IF /\ Contains(hazards, "None") \/ Contains(hazards, "Error")
              /\ Contains(signs, "None") \/ Contains(signs, "Error")
      THEN AppendMessage(Put(st, "should_report", FALSE),
             <<"Prioritization Agent ->",
               "No significant hazards detected", "low priority">>)
      ELSE Put(AppendMessage(Put(st, "severity", "HIGH"),
                 <<"Prioritization Agent ->",
                   "New high-priority hazard detected",
                   "proceed to report">>),
               "should_report", TRUE)

prioritization_node_findings_first(st, recent, reply) ==
  LET hazards == Get(st, "hazards", <<>>)
  IN  IF Contains(hazards, "None") \/ Contains(hazards, "Error")
      THEN AppendMessage(Put(st, "should_report", FALSE),
             <<"Prioritization Agent ->",
               "No significant hazards detected", "low priority">>)
      ELSE IF recent
      THEN AppendMessage(Put(st, "should_report", FALSE),
             <<"Prioritization Agent ->",
               "Location recently reported (within 7 days)", "suppressed">>)
      ELSE Put(AppendMessage(Put(st, "severity", "HIGH"),
                 <<"Prioritization Agent ->",
                   "New high-priority hazard detected",
                   "proceed to report">>),
               "should_report", TRUE)

prioritization_node(st, recent, reply) ==
  LET hazards == Get(st, "hazards", <<>>)
  IN  IF recent
      THEN AppendMessage(Put(st, "should_report", FALSE),
             <<"Prioritization Agent ->",
               "Location recently reported (within 7 days)", "suppressed">>)
      ELSE IF Contains(hazards, "None") \/ Contains(hazards, "Error")
      THEN AppendMessage(Put(st, "should_report", FALSE),
             <<"Prioritization Agent ->",
               "No significant hazards detected", "low priority">>)
      ELSE LET s1 ==
                 IF ~AssessorFails(reply)
                 THEN AppendMessage(
                        Put(st, "severity", SeverityWord(reply)),
                        <<"Prioritization Agent (Gemini) ->",
                          "Severity assessed as", SeverityWord(reply),
                          "proceed to report">>)
                 ELSE AppendMessage(
                        Put(st, "severity", "HIGH"),
                        <<"Prioritization Agent ->",
                          "New high-priority hazard detected",
                          "proceed to report">>)
           IN  Put(s1, "should_report", TRUE)

route_prioritization_always_reports(st) == "report"

\* the branch of prioritization_node that calls llm.invoke
NeedsAssessor(st, recent) ==
  LET hazards == Get(st, "hazards", <<>>)
  IN  ~recent /\ ~(Contains(hazards, "None") \/ Contains(hazards, "Error"))

route_prioritization(st) ==
  IF Get(st, "should_report", FALSE) THEN "report" ELSE "END"

report_lines(st, clock) ==
  << <<"SAFEROAD-GUARDIAN HAZARD REPORT">>,
     <<"Timestamp:", ToString(clock)>>,
     <<"Location (GPS):", Get(st, "gps", "unknown")>>,
     <<"Image Source:", Get(st, "image_path", "")>>,
     <<"DETECTION RESULTS:">>,
     Get(st, "hazards", <<"None">>),
     Get(st, "signs", <<"None">>),
     <<"AGENT WORKFLOW LOG:">> >>
  \o [i \in DOMAIN st["messages"] |-> <<"*">> \o st["messages"][i]]

report_node_resets_should_report(st, clock) ==
  Put(AppendMessage(Put(st, "report", report_lines(st, clock)),
        <<"Report Agent ->", "Generated and saved comprehensive report for",
          Get(st, "gps", "unknown")>>),
      "should_report", FALSE)

\* the rendered report is not stored in the state
report_node_drops_report(st, clock) ==
  AppendMessage(st,
    <<"Report Agent ->", "Generated and saved comprehensive report for",
      Get(st, "gps", "unknown")>>)

report_node(st, clock) ==
  AppendMessage(Put(st, "report", report_lines(st, clock)),
    <<"Report Agent ->", "Generated and saved comprehensive report for",
      Get(st, "gps", "unknown")>>)

\* ------------------------------------------------------------------- graph
\* messages: Annotated[List[str], operator.add]. A node appends to the list
\* it was handed, which is the list the channel holds, and returns it; the
\* channel then adds the returned list to its own.
operator_add(a, b) == a \o b

ApplyWrites(returned) ==
  Put(returned, "messages",
      operator_add(returned["messages"], returned["messages"]))

initial_state(image_path, gps) ==
  [image_path |-> image_path, gps |-> gps, messages |-> <<>>,
   hazards |-> <<>>, signs |-> <<>>, should_report |-> FALSE,
   report |-> <<>>, error |-> FALSE]

\* what app.invoke hands back: the channels of AgentState
Result(st) == [k \in (DOMAIN st) \cap AgentStateKeys |-> st[k]]

\* ------------------------------------------------------------------ caller
Lower(word) ==
  CASE word = "LOW" -> "low"
    [] word = "MEDIUM" -> "medium"
    [] word = "HIGH" -> "high"
    [] OTHER -> word

\* the voice alert chosen for a signs text
SignAlert(signs) ==
  IF Contains(signs, "hospital")
  THEN <<"Hospital crossing ahead. Reduce speed and no horn zone", "low">>
  ELSE IF Contains(signs, "school")
  THEN <<"School zone ahead. Reduce speed and watch for children", "normal">>
  ELSE IF Contains(signs, "crossing") \/ Contains(signs, "pedestrian")
  THEN <<"Pedestrian crossing ahead. Reduce speed and stay alert", "normal">>
  ELSE IF Contains(signs, "stop")
  THEN <<"Stop sign ahead. Prepare to stop", "low">>
  ELSE IF Contains(signs, "yield")
  THEN <<"Yield sign ahead. Prepare to give way", "low">>
  ELSE <<"Road sign detected. Stay alert", "low">>

\* run_analysis raised: the except branch prints the error and does nothing
MainFailed ==
  [made |-> TRUE, shown |-> FALSE, narrator |-> <<>>, notifier |-> <<>>,
   notice |-> FALSE]

main_notifies_duplicates(result) ==
  LET hazards == Get(result, "hazards", <<>>)
      severity == Get(result, "severity", "HIGH")
  IN  IF Truthy(hazards) /\ ~Contains(hazards, "None")
      THEN [made |-> TRUE, shown |-> Truthy(Get(result, "report", <<>>)),
            narrator |-> << <<"Road hazard detected", Lower(severity)>> >>,
            notifier |-> << <<Get(result, "gps", ""), severity>> >>,
            notice |-> FALSE]
      ELSE [MainFailed EXCEPT !.shown = Truthy(Get(result, "report", <<>>))]

\* what __main__ does with the result of run_analysis: speak_professional
\* calls, send_to_authority calls, and the duplicate notice
main(result) ==
  LET should_report == Get(result, "should_report", TRUE)
      hazards == Get(result, "hazards", <<>>)
      signs == Get(result, "signs", <<>>)
      severity == Get(result, "severity", "HIGH")
      shown == Truthy(Get(result, "report", <<>>))
  IN  IF Truthy(hazards) /\ ~Contains(hazards, "None") /\ should_report
      THEN [made |-> TRUE, shown |-> shown,
            narrator |-> << <<"Road hazard detected", Lower(severity)>> >>,
            notifier |-> << <<Get(result, "gps", ""), severity>> >>,
            notice |-> FALSE]
      ELSE IF Truthy(signs) /\ ~Contains(signs, "None")
      THEN [made |-> TRUE, shown |-> shown,
            narrator |-> <<SignAlert(signs)>>, notifier |-> <<>>,
            notice |-> FALSE]
      ELSE IF Truthy(hazards) /\ ~Contains(hazards, "None") /\ ~should_report
      THEN [made |-> TRUE, shown |-> shown, narrator |-> <<>>,
            notifier |-> <<>>, notice |-> TRUE]
      ELSE [made |-> TRUE, shown |-> shown, narrator |-> <<>>,
            notifier |-> <<>>, notice |-> FALSE]

\* ------------------------------------------------------------------- state
VARIABLES
  now,         \* datetime.now(), in days
  collection,  \* the road_hazards collection of memory_db
  pc,          \* node the graph is about to run; "idle", "END" or "raised"
  state,       \* the AgentState dict handed from node to node
  outcome,     \* terminal outcome of the current run, "NONE" until it ends
  path,        \* nodes the current run has executed, in order
  calls,       \* collaborator calls the current run has made
  store0,      \* the collection when the current run started
  runs,        \* runs started
  directs,     \* direct save_report calls made
  lastCheck,   \* last direct was_recently_reported call and what it returned
  lastHistory, \* last get_location_history / get_all_reports call and result
  lastSave,    \* last direct save_report call and the store size before it
  peer,        \* a second run_analysis in flight against the same memory_db
  caller       \* what __main__ did with the result of the run

vars ==
  <<now, collection, pc, state, outcome, path, calls, store0, runs, directs,
    lastCheck, lastHistory, lastSave, peer, caller>>

NoCalls ==
  [classifier |-> 0, assessor |-> 0, save |-> 0, query |-> 0,
   query_raised |-> 0, assessor_failed |-> 0, supervisor_llm |-> 0]

NoCheck == [made |-> FALSE]

NoHistory == [made |-> FALSE]

NoSave == [made |-> FALSE]

NoPeer == [pc |-> "idle"]

NoCaller == [made |-> FALSE]

Bump(c, k) == [c EXCEPT ![k] = @ + 1]

Idle == pc = "idle"

\* memory_db persists between processes: it is empty on first use, or holds
\* what earlier processes saved, here N_RESULTS reports of another place.
OlderReports ==
  {Record(OtherLocation, <<"Hazards:">> \o HazardDetection("pothole"),
          <<"Signs:", "None">>, GoodImage, 0 - d) : d \in 1..N_RESULTS}

Init ==
  /\ now = 0
  /\ collection \in {{}, OlderReports}
  /\ pc = "idle"
  /\ state = initial_state("", "")
  /\ outcome = "NONE"
  /\ path = <<>>
  /\ calls = NoCalls
  /\ store0 = collection
  /\ runs = 0
  /\ directs = 0
  /\ lastCheck = NoCheck
  /\ lastHistory = NoHistory
  /\ lastSave = NoSave
  /\ peer = NoPeer
  /\ caller = NoCaller

\* ----------------------------------------------------------------- actions
Tick ==
  /\ Idle
  /\ now < MaxTime
  /\ now' = now + 1
  /\ lastCheck' = NoCheck
  /\ lastHistory' = NoHistory
  /\ lastSave' = NoSave
  /\ UNCHANGED <<collection, pc, state, outcome, path, calls, store0, runs,
                 directs, peer, caller>>

\* a run starts some days after the previous operation
StartRun(st) ==
  /\ Idle
  /\ runs < MaxRuns
  /\ \E delay \in Delays : now + delay <= MaxTime /\ now' = now + delay
  /\ runs' = runs + 1
  /\ pc' = "supervisor"
  /\ state' = st
  /\ outcome' = "NONE"
  /\ path' = <<>>
  /\ calls' = NoCalls
  /\ store0' = collection
  /\ lastCheck' = NoCheck
  /\ lastHistory' = NoHistory
  /\ lastSave' = NoSave
  /\ UNCHANGED <<collection, directs, peer, caller>>

\* run_analysis(image_path, gps)
RunAnalysis ==
  \E image_path \in ImagePaths, gps \in Locations :
    StartRun(ApplyWrites(initial_state(image_path, gps)))

\* create_graph().invoke(...) on a state that has no image_path
InvokeWithoutImage ==
  \E gps \in Locations :
    StartRun([k \in AgentStateKeys \ {"image_path"} |->
                initial_state("", gps)[k]])

Supervisor ==
  /\ pc = "supervisor"
  /\ \E reply \in SupervisorReplies :
       LET st == ApplyWrites(supervisor_node(state, reply))
       IN  /\ state' = st
           /\ pc' = route_supervisor(st)
           /\ outcome' = IF route_supervisor(st) = "END" THEN "ABORTED"
                         ELSE "NONE"
  /\ path' = Append(path, "supervisor")
  /\ calls' = Bump(calls, "supervisor_llm")
  /\ UNCHANGED <<now, collection, store0, runs, directs, lastCheck,
                 lastHistory, lastSave, peer, caller>>

Vision_writes_store ==
  /\ pc = "vision"
  /\ "image_path" \in DOMAIN state
  /\ \E hboxes \in HazardBoxes, sboxes \in SignBoxes :
       LET image_path == state["image_path"]
           hazards == detect_road_hazards(Readable(image_path), hboxes)
           signs == detect_and_assess_signs(Readable(image_path), sboxes)
       IN  state' = ApplyWrites(vision_node(state, hazards, signs))
  /\ collection' =
       save_report(collection, Get(state, "gps", "unknown"), <<"None">>,
                   <<"None">>, state["image_path"], now, "stored")
  /\ pc' = "prioritization"
  /\ path' = Append(path, "vision")
  /\ calls' = Bump(Bump(calls, "classifier"), "classifier")
  /\ UNCHANGED <<now, outcome, store0, runs, directs, lastCheck,
                 lastHistory, lastSave, peer, caller>>

Vision ==
  /\ pc = "vision"
  /\ "image_path" \in DOMAIN state
  /\ \E hboxes \in HazardBoxes, sboxes \in SignBoxes :
       LET image_path == state["image_path"]
           hazards == detect_road_hazards(Readable(image_path), hboxes)
           signs == detect_and_assess_signs(Readable(image_path), sboxes)
       IN  state' = ApplyWrites(vision_node(state, hazards, signs))
  /\ pc' = "prioritization"
  /\ path' = Append(path, "vision")
  /\ calls' = Bump(Bump(calls, "classifier"), "classifier")
  /\ UNCHANGED <<now, collection, outcome, store0, runs, directs, lastCheck,
                 lastHistory, lastSave, peer, caller>>

\* state["image_path"] or a YOLO model call raises; vision_node does not
\* catch it. The hazard model or the sign model is the one that raised.
VisionRaises ==
  /\ pc = "vision"
  /\ IF "image_path" \notin DOMAIN state THEN calls' = calls
     ELSE /\ Readable(state["image_path"])
          /\ \E n \in 1..2 : calls' = [calls EXCEPT !.classifier = @ + n]
  /\ pc' = "raised"
  /\ path' = Append(path, "vision")
  /\ UNCHANGED <<now, collection, state, outcome, store0, runs, directs,
                 lastCheck,
                 lastHistory, lastSave, peer, caller>>

Prioritization ==
  /\ pc = "prioritization"
  /\ \E results \in QueryOutcomes(collection, N_RESULTS) :
       LET gps == Get(state, "gps", "unknown")
           recent == was_recently_reported(results, gps, RECENT_DAYS, now)
           asks == NeedsAssessor(state, recent)
           queried == IF results.raised
                      THEN Bump(Bump(calls, "query"), "query_raised")
                      ELSE Bump(calls, "query")
       IN  \E reply \in (IF asks THEN SeverityReplies ELSE {NoReply}) :
             LET st == ApplyWrites(prioritization_node(state, recent, reply))
             IN  /\ state' = st
                 /\ pc' = route_prioritization(st)
                 /\ outcome' =
                      IF route_prioritization(st) = "report" THEN "NONE"
                      ELSE IF recent THEN "SUPPRESSED"
                      ELSE "LOW_PRIORITY"
                 /\ calls' =
                      IF ~asks THEN queried
                      ELSE IF AssessorFails(reply)
                      THEN Bump(Bump(queried, "assessor"), "assessor_failed")
                      ELSE Bump(queried, "assessor")
  /\ path' = Append(path, "prioritization")
  /\ UNCHANGED <<now, collection, store0, runs, directs, lastCheck,
                 lastHistory, lastSave, peer, caller>>

Report ==
  /\ pc = "report"
  /\ collection' =
       save_report(collection, Get(state, "gps", "unknown"),
                   Get(state, "hazards", <<"None">>),
                   Get(state, "signs", <<"None">>),
                   Get(state, "image_path", ""), now, "stored")
  /\ state' = ApplyWrites(report_node(state, now))
  /\ pc' = "END"
  /\ outcome' = "REPORTED"
  /\ path' = Append(path, "report")
  /\ calls' = Bump(calls, "save")
  /\ UNCHANGED <<now, store0, runs, directs, lastCheck,
                 lastHistory, lastSave, peer, caller>>

\* collection.add raises inside save_report; report_node does not catch it
ReportRaises ==
  /\ pc = "report"
  /\ collection' =
       save_report(collection, Get(state, "gps", "unknown"),
                   Get(state, "hazards", <<"None">>),
                   Get(state, "signs", <<"None">>),
                   Get(state, "image_path", ""), now, "raise")
  /\ pc' = "raised"
  /\ path' = Append(path, "report")
  /\ calls' = Bump(calls, "save")
  /\ UNCHANGED <<now, state, outcome, store0, runs, directs, lastCheck,
                 lastHistory, lastSave, peer, caller>>

\* app.invoke has returned or raised; the caller is done with this run
Finish ==
  /\ pc \in {"END", "raised"}
  /\ pc' = "idle"
  /\ state' = initial_state("", "")
  /\ outcome' = "NONE"
  /\ path' = <<>>
  /\ calls' = NoCalls
  /\ store0' = collection
  /\ caller' = NoCaller
  /\ peer' = NoPeer
  /\ UNCHANGED <<now, collection, runs, directs, lastCheck,
                 lastHistory, lastSave>>

\* save_report called by a client of the memory package
SaveReportDirect ==
  /\ Idle
  /\ directs < MaxDirect
  /\ \E gps \in Locations, add \in AddOutcomes :
       /\ collection' =
            save_report(collection, gps,
                        <<"Hazards:">> \o HazardDetection("pothole"),
                        <<"Signs:", "None">>, GoodImage, now, add)
       /\ lastSave' = [made |-> TRUE, gps |-> gps, add |-> add,
                       before |-> collection]
  /\ directs' = directs + 1
  /\ lastCheck' = NoCheck
  /\ lastHistory' = NoHistory
  /\ UNCHANGED <<now, pc, state, outcome, path, calls, store0, runs, peer,
                 caller>>

\* check_if_authority_notified(gps): was_recently_reported(gps, days=7)
CheckRecent ==
  /\ Idle
  /\ \E gps \in Locations, results \in QueryOutcomes(collection, N_RESULTS) :
       lastCheck' =
         [made |-> TRUE, gps |-> gps, raised |-> results.raised,
          result |-> was_recently_reported(results, gps, RECENT_DAYS, now)]
  /\ lastHistory' = NoHistory
  /\ UNCHANGED <<now, collection, pc, state, outcome, path, calls, store0,
                 runs, directs, lastSave, peer, caller>>

HistoryLimits == 1..MaxLimit

\* get_location_history(gps, limit) called by a client of the memory package
GetLocationHistory ==
  /\ Idle
  /\ \E gps \in Locations, limit \in HistoryLimits :
       \E results \in QueryRanked(collection, limit) :
         lastHistory' =
           [made |-> TRUE, op |-> "get_location_history", gps |-> gps,
            limit |-> limit, raised |-> results.raised,
            rows |-> get_location_history(results)]
  /\ lastCheck' = NoCheck
  /\ UNCHANGED <<now, collection, pc, state, outcome, path, calls, store0,
                 runs, directs, lastSave, peer, caller>>

\* get_all_reports() called by a client of the memory package
GetAllReports ==
  /\ Idle
  /\ \E results \in CollectionGet(collection, ALL_LIMIT) :
       lastHistory' =
         [made |-> TRUE, op |-> "get_all_reports", gps |-> "",
          limit |-> ALL_LIMIT, raised |-> results.raised,
          rows |-> get_all_reports(results)]
  /\ lastCheck' = NoCheck
  /\ UNCHANGED <<now, collection, pc, state, outcome, path, calls, store0,
                 runs, directs, lastSave, peer, caller>>

\* the pipeline, run after run, against the shared memory bank
Next ==
  \/ RunAnalysis
  \/ InvokeWithoutImage
  \/ Supervisor
  \/ Vision
  \/ VisionRaises
  \/ Prioritization
  \/ Report
  \/ ReportRaises
  \/ Finish

Spec == Init /\ [][Next]_vars

\* the memory bank alone, called by a client of the memory package
NextMemory ==
  \/ Tick
  \/ SaveReportDirect
  \/ CheckRecent

SpecMemory == Init /\ [][NextMemory]_vars

\* __main__ after run_analysis has returned or raised
Caller ==
  /\ pc \in {"END", "raised"}
  /\ ~caller.made
  /\ caller' = IF pc = "raised" THEN MainFailed ELSE main(Result(state))
  /\ UNCHANGED <<now, collection, pc, state, outcome, path, calls, store0,
                 runs, directs, lastCheck, lastHistory, lastSave, peer>>

\* the process is over once __main__ has handled the result
FinishMain ==
  /\ caller.made
  /\ Finish

\* each detect function reads the image file itself (cv2.imread): the file
\* is written or removed between the two reads, so one read fails and the
\* other does not; a failed read returns before its YOLO model is called
VisionFileChanges ==
  /\ pc = "vision"
  /\ "image_path" \in DOMAIN state
  /\ \E hboxes \in HazardBoxes, sboxes \in SignBoxes :
       LET first == Readable(state["image_path"])
           hazards == detect_road_hazards(first, hboxes)
           signs == detect_and_assess_signs(~first, sboxes)
       IN  state' = ApplyWrites(vision_node(state, hazards, signs))
  /\ pc' = "prioritization"
  /\ path' = Append(path, "vision")
  /\ calls' = Bump(calls, "classifier")
  /\ UNCHANGED <<now, collection, outcome, store0, runs, directs, lastCheck,
                 lastHistory, lastSave, peer, caller>>

\* python main.py <image> <gps>, time after time
NextMain ==
  \/ RunAnalysis
  \/ Supervisor
  \/ Vision
  \/ VisionRaises
  \/ Prioritization
  \/ Report
  \/ ReportRaises
  \/ Caller
  \/ FinishMain

SpecMain == Init /\ [][NextMain]_vars

\* a YOLO model call of vision_node never returns; nothing bounds the call
VisionBlocks ==
  /\ pc = "vision"
  /\ "image_path" \in DOMAIN state
  /\ Readable(state["image_path"])
  /\ \E n \in 1..2 : calls' = [calls EXCEPT !.classifier = @ + n]
  /\ pc' = "blocked"
  /\ path' = Append(path, "vision")
  /\ UNCHANGED <<now, collection, state, outcome, store0, runs, directs,
                 lastCheck, lastHistory, lastSave, peer, caller>>

\* llm.invoke of prioritization_node never returns; the client is built
\* without a timeout and the call is not wrapped in one
PrioritizationBlocks ==
  /\ pc = "prioritization"
  /\ \E results \in QueryOutcomes(collection, N_RESULTS) :
       LET gps == Get(state, "gps", "unknown")
           recent == was_recently_reported(results, gps, RECENT_DAYS, now)
           queried == IF results.raised
                      THEN Bump(Bump(calls, "query"), "query_raised")
                      ELSE Bump(calls, "query")
       IN  /\ NeedsAssessor(state, recent)
           /\ calls' = Bump(queried, "assessor")
  /\ pc' = "blocked"
  /\ path' = Append(path, "prioritization")
  /\ UNCHANGED <<now, collection, state, outcome, store0, runs, directs,
                 lastCheck, lastHistory, lastSave, peer, caller>>

\* the pipeline with collaborator calls that may never return; a run goes
\* on for as long as it has a step to take
NextBlocking ==
  \/ Next
  \/ VisionBlocks
  \/ PrioritizationBlocks

\* ------------------------------------------------------ two runs at once
\* a second run_analysis for the same location, in another process or
\* session, started while the first is at its first node; both use the one
\* memory_db
PeerOver == peer.pc \in {"END", "raised"}

\* run_analysis(GoodImage, gps), the first of the two runs
StartFirst ==
  /\ Idle
  /\ runs = 0
  /\ \E gps \in Locations :
       state' = ApplyWrites(initial_state(GoodImage, gps))
  /\ runs' = runs + 1
  /\ pc' = "supervisor"
  /\ outcome' = "NONE"
  /\ path' = <<>>
  /\ calls' = NoCalls
  /\ store0' = collection
  /\ UNCHANGED <<now, collection, directs, lastCheck, lastHistory, lastSave,
                 peer, caller>>

PeerStart ==
  /\ pc = "supervisor"
  /\ peer.pc = "idle"
  /\ peer' = [pc |-> "supervisor",
              state |->
                ApplyWrites(initial_state(GoodImage,
                                          Get(state, "gps", "unknown"))),
              outcome |-> "NONE", path |-> <<>>,
              unsaved_at_check |-> FALSE, checked_at_save |-> FALSE]
  /\ UNCHANGED <<now, collection, pc, state, outcome, path, calls, store0,
                 runs, directs, lastCheck, lastHistory, lastSave, caller>>

PeerSupervisor ==
  /\ peer.pc = "supervisor"
  /\ \E reply \in SupervisorReplies :
       LET st == ApplyWrites(supervisor_node(peer.state, reply))
       IN  peer' = [peer EXCEPT
                      !.state = st,
                      !.pc = route_supervisor(st),
                      !.outcome = IF route_supervisor(st) = "END"
                                  THEN "ABORTED" ELSE "NONE",
                      !.path = Append(@, "supervisor")]
  /\ UNCHANGED <<now, collection, pc, state, outcome, path, calls, store0,
                 runs, directs, lastCheck, lastHistory, lastSave, caller>>

PeerVision ==
  /\ peer.pc = "vision"
  /\ \E hboxes \in HazardBoxes, sboxes \in SignBoxes :
       LET image_path == peer.state["image_path"]
           hazards == detect_road_hazards(Readable(image_path), hboxes)
           signs == detect_and_assess_signs(Readable(image_path), sboxes)
       IN  peer' = [peer EXCEPT
                      !.state = ApplyWrites(vision_node(@, hazards, signs)),
                      !.pc = "prioritization",
                      !.path = Append(@, "vision")]
  /\ UNCHANGED <<now, collection, pc, state, outcome, path, calls, store0,
                 runs, directs, lastCheck, lastHistory, lastSave, caller>>

PeerVisionRaises ==
  /\ peer.pc = "vision"
  /\ peer' = [peer EXCEPT !.pc = "raised", !.path = Append(@, "vision")]
  /\ UNCHANGED <<now, collection, pc, state, outcome, path, calls, store0,
                 runs, directs, lastCheck, lastHistory, lastSave, caller>>

\* unsaved_at_check: the first run had not called save_report when this
\* run made its recency check
PeerPrioritization ==
  /\ peer.pc = "prioritization"
  /\ \E results \in QueryOutcomes(collection, N_RESULTS) :
       LET gps == Get(peer.state, "gps", "unknown")
           recent == was_recently_reported(results, gps, RECENT_DAYS, now)
           asks == NeedsAssessor(peer.state, recent)
       IN  \E reply \in (IF asks THEN SeverityReplies ELSE {NoReply}) :
             LET st == ApplyWrites(
                         prioritization_node(peer.state, recent, reply))
             IN  peer' = [peer EXCEPT
                            !.state = st,
                            !.pc = route_prioritization(st),
                            !.outcome =
                              IF route_prioritization(st) = "report"
                              THEN "NONE"
                              ELSE IF recent THEN "SUPPRESSED"
                              ELSE "LOW_PRIORITY",
                            !.path = Append(@, "prioritization"),
                            !.unsaved_at_check = (calls.save = 0)]
  /\ UNCHANGED <<now, collection, pc, state, outcome, path, calls, store0,
                 runs, directs, lastCheck, lastHistory, lastSave, caller>>

\* checked_at_save: the first run had made its recency check when this run
\* called save_report
PeerReport ==
  /\ peer.pc = "report"
  /\ collection' =
       save_report(collection, Get(peer.state, "gps", "unknown"),
                   Get(peer.state, "hazards", <<"None">>),
                   Get(peer.state, "signs", <<"None">>),
                   Get(peer.state, "image_path", ""), now, "stored")
  /\ peer' = [peer EXCEPT
                !.state = ApplyWrites(report_node(@, now)),
                !.pc = "END",
                !.outcome = "REPORTED",
                !.path = Append(@, "report"),
                !.checked_at_save = (Len(path) >= 3)]
  /\ UNCHANGED <<now, pc, state, outcome, path, calls, store0, runs,
                 directs, lastCheck, lastHistory, lastSave, caller>>

PeerReportRaises ==
  /\ peer.pc = "report"
  /\ peer' = [peer EXCEPT
                !.pc = "raised",
                !.path = Append(@, "report"),
                !.checked_at_save = (Len(path) >= 3)]
  /\ UNCHANGED <<now, collection, pc, state, outcome, path, calls, store0,
                 runs, directs, lastCheck, lastHistory, lastSave, caller>>

\* datetime.now() moves on between the check of a run and its save
TickRace ==
  /\ pc = "report" \/ peer.pc = "report"
  /\ now < MaxDirect
  /\ now' = now + 1
  /\ UNCHANGED <<collection, pc, state, outcome, path, calls, store0, runs,
                 directs, lastCheck, lastHistory, lastSave, peer, caller>>

\* both runs are over
FinishPair ==
  /\ peer.pc = "idle" \/ PeerOver
  /\ Finish

NextConcurrent ==
  \/ StartFirst
  \/ Supervisor
  \/ Vision
  \/ VisionRaises
  \/ Prioritization
  \/ Report
  \/ ReportRaises
  \/ PeerStart
  \/ PeerSupervisor
  \/ PeerVision
  \/ PeerVisionRaises
  \/ PeerPrioritization
  \/ PeerReport
  \/ PeerReportRaises
  \/ TickRace
  \/ FinishPair

\* a memory bank that starts empty, with all five functions of the package
InitEmpty == Init /\ collection = {}

\* the clock between two calls of the package; a later reading per save
\* is all the order of the timestamps needs
TickHistory ==
  /\ now < MaxDirect
  /\ Tick

NextHistory ==
  \/ TickHistory
  \/ SaveReportDirect
  \/ CheckRecent
  \/ GetLocationHistory
  \/ GetAllReports

SpecHistory == InitEmpty /\ [][NextHistory]_vars

SpecConcurrent == InitEmpty /\ [][NextConcurrent]_vars

\* python main.py <image> <gps> on an image file that other programs write
NextFiles ==
  \/ NextMain
  \/ VisionFileChanges

SpecFiles == InitEmpty /\ [][NextFiles]_vars

SpecBlocking ==
  InitEmpty /\ [][NextBlocking]_vars /\ WF_vars(NextBlocking)

\* ------------------------------------------------------------------ claims
TerminalOutcomes == {"ABORTED", "SUPPRESSED", "LOW_PRIORITY", "REPORTED"}

StageOrder == <<"supervisor", "vision", "prioritization", "report">>

RunOver == pc \in {"END", "raised"}

InRun == pc # "idle"

Prioritized == Len(path) >= 3

\* the recency check of this run returned False
NotRecent == Prioritized /\ outcome # "SUPPRESSED"

NoImage(st) == "image_path" \notin DOMAIN st \/ st["image_path"] = ""

HasFindings(text) == ~(Contains(text, "None") \/ Contains(text, "Error"))

RunGps == Get(state, "gps", "unknown")

OwnRecords(coll, gps) == {r \in coll : r.gps = gps}

Added == collection \ store0

InWindow(r, clock, days) ==
  r.timestamp <= clock /\ clock < r.timestamp + days

\* C1: every run ends in exactly one of ABORTED, SUPPRESSED, LOW_PRIORITY,
\* REPORTED; the nodes run at most once each and in the order supervisor,
\* vision, prioritization, report; no run ends inside a stage.
C1_EveryRunEndsInOneOutcome ==
  /\ Len(path) <= Len(StageOrder)
  /\ path = SubSeq(StageOrder, 1, Len(path))
  /\ RunOver => outcome \in TerminalOutcomes
  /\ outcome # "NONE" => pc = "END"

\* C2: a run whose image reference is empty or absent can only end ABORTED,
\* and it calls no classifier, no severity assessor and no save_report.
C2_AbortPrecedence ==
  (InRun /\ NoImage(state)) =>
    /\ pc \in {"supervisor", "END"}
    /\ pc = "END" => outcome = "ABORTED"
    /\ calls.classifier = 0 /\ calls.assessor = 0 /\ calls.save = 0
    /\ calls.query = 0
    /\ collection = store0

C2_Witness ==
  /\ pc = "END" /\ outcome = "ABORTED" /\ NoImage(state)
  /\ \E r \in collection :
       r.gps = RunGps /\ InWindow(r, now, RECENT_DAYS)

\* C3: a recency check that did not fail answers True exactly when the
\* store holds a record for that location written at T with T <= now <
\* T + window, and False from T + window on.
C3_IdempotentSuppression ==
  (lastCheck.made /\ ~lastCheck.raised) =>
    lastCheck.result =
      (\E r \in collection :
         r.gps = lastCheck.gps /\ InWindow(r, now, RECENT_DAYS))

\* C4: the answer of a recency check for a location is an answer the same
\* check gives on the store stripped of every other location's records.
C4_LocationExactness ==
  (lastCheck.made /\ ~lastCheck.raised) =>
    lastCheck.result \in
      {was_recently_reported(q, lastCheck.gps, RECENT_DAYS, now) :
         q \in {x \in QueryOutcomes(OwnRecords(collection, lastCheck.gps),
                                    N_RESULTS) : ~x.raised}}

\* C5 as claimed: with no recent report the run ends LOW_PRIORITY exactly
\* when both the hazard and the sign findings are empty or error; findings
\* in either category set should_report and the run ends REPORTED.
C5_EitherCategoryReports ==
  (pc = "END" /\ NotRecent) =>
    /\ outcome = "LOW_PRIORITY" <=>
         (~HasFindings(state["hazards"]) /\ ~HasFindings(state["signs"]))
    /\ (HasFindings(state["hazards"]) \/ HasFindings(state["signs"])) =>
         (state["should_report"] /\ outcome = "REPORTED")

\* C5 amended: with no recent report the hazard findings alone decide: empty
\* or error hazards end the run LOW_PRIORITY whatever the signs are; hazard
\* findings set should_report and route the run to the report node.
C5_HazardsDecide ==
  NotRecent =>
    IF HasFindings(state["hazards"])
    THEN /\ state["should_report"]
         /\ pc = "report" \/ Len(path) = 4
         /\ pc = "END" => outcome = "REPORTED"
    ELSE /\ ~state["should_report"]
         /\ pc = "END"
         /\ outcome = "LOW_PRIORITY"

C5_Witness ==
  /\ pc = "END" /\ outcome = "LOW_PRIORITY"
  /\ state["hazards"] = <<"Hazards:", "None">>
  /\ HasFindings(state["signs"])

\* C6: with both finding sets empty and no recent report the run ends
\* LOW_PRIORITY and save_report is never called.
C6_NoFindingsLowPriority ==
  (/\ NotRecent
   /\ state["hazards"] = <<"Hazards:", "None">>
   /\ state["signs"] = <<"Signs:", "None">>) =>
    /\ pc = "END"
    /\ outcome = "LOW_PRIORITY"
    /\ calls.save = 0
    /\ collection = store0

C6_Witness ==
  /\ pc = "END" /\ outcome = "LOW_PRIORITY"
  /\ state["hazards"] = <<"Hazards:", "None">>
  /\ state["signs"] = <<"Signs:", "None">>
  /\ calls.query = 1 /\ calls.query_raised = 0
  /\ OwnRecords(collection, RunGps) # {}

\* C7: a run in which the severity assessor failed ends REPORTED with
\* severity HIGH.
C7_FailOpenSeverity ==
  (RunOver /\ calls.assessor_failed > 0) =>
    (outcome = "REPORTED" /\ state["severity"] = "HIGH")

\* C8: a run that reaches prioritization for a location with a record less
\* than 7 days old, and whose store query did not fail, ends SUPPRESSED,
\* writes no record and calls no severity assessor.
C8_RepeatSuppressed ==
  (/\ Prioritized
   /\ calls.query_raised = 0
   /\ \E r \in store0 : r.gps = RunGps /\ InWindow(r, now, RECENT_DAYS)) =>
    /\ outcome = "SUPPRESSED"
    /\ collection = store0
    /\ calls.assessor = 0

\* C9: a run with a hazard finding for a location whose only record is
\* 8 days old ends REPORTED and leaves two records for that location.
C9_WindowExpiryReports ==
  (/\ RunOver /\ Prioritized
   /\ HasFindings(state["hazards"])
   /\ \E r \in store0 :
        /\ OwnRecords(store0, RunGps) = {r}
        /\ now - r.timestamp = RECENT_DAYS + 1) =>
    /\ outcome = "REPORTED"
    /\ store0 \subseteq collection
    /\ Cardinality(OwnRecords(collection, RunGps)) = 2

\* C10: a run that ends REPORTED has added exactly one record, for the
\* location of the run; a run that ends otherwise has added none.
C10_AppendCount ==
  pc = "END" =>
    /\ store0 \subseteq collection
    /\ IF outcome = "REPORTED"
       THEN \E r \in Added : Added = {r} /\ r.gps = state["gps"]
       ELSE Added = {}

C10_Witness ==
  /\ pc = "END" /\ outcome = "REPORTED"
  /\ Cardinality(Added) = 1
  /\ OwnRecords(store0, RunGps) # {}

\* C11: a run that reaches the report node ends REPORTED and its returned
\* state carries the rendered report, whether or not collection.add fails
\* inside save_report.
C11_ReportingSurvivesStoreFailure ==
  (RunOver /\ Len(path) = 4) =>
    /\ pc = "END"
    /\ outcome = "REPORTED"
    /\ Truthy(Get(Result(state), "report", <<>>))

\* C12: whatever the classifier, the severity assessor and the store query
\* do, a run that was given an image ends SUPPRESSED, LOW_PRIORITY or
\* REPORTED with a non-empty audit log that names the stages in order.
C12_GracefulDegradation ==
  (RunOver /\ ~NoImage(state)) =>
    /\ pc = "END"
    /\ outcome \in {"SUPPRESSED", "LOW_PRIORITY", "REPORTED"}
    /\ Len(path) >= 3
    /\ Truthy(Get(Result(state), "messages", <<>>))

\* C13: once the vision node has been entered the run holds a hazards and
\* a signs value and goes on to prioritization, whatever the two
\* classifier calls did.
C13_DetectionNonFatal ==
  Len(path) >= 2 =>
    /\ ~(pc = "raised" /\ Len(path) = 2)
    /\ Truthy(state["hazards"]) /\ Truthy(state["signs"])
    /\ Len(path) = 2 => pc = "prioritization"

\* C14: a recency check whose store query fails, or that finds the store
\* empty, answers False and raises nothing: the run goes on past
\* prioritization and does not end SUPPRESSED.
C14_RecencyCheckFailsOpen ==
  (Prioritized /\ (calls.query_raised > 0 \/ store0 = {})) =>
    /\ outcome # "SUPPRESSED"
    /\ calls.query = 1
    /\ Len(path) = 3 => pc \in {"report", "END"}

C14_Witness ==
  /\ pc = "END" /\ outcome \in {"LOW_PRIORITY", "REPORTED"}
  /\ calls.query_raised = 1
  /\ \E r \in store0 : r.gps = RunGps /\ InWindow(r, now, RECENT_DAYS)

\* C15: a run ends SUPPRESSED only if, when it checked, the store held a
\* record with exactly its location and a timestamp strictly later than
\* now minus the 7-day window.
C15_SuppressionSoundness ==
  outcome = "SUPPRESSED" =>
    /\ calls.query = 1 /\ calls.query_raised = 0
    /\ \E r \in store0 :
         r.gps = RunGps /\ r.timestamp > now - RECENT_DAYS

C15_Witness ==
  /\ pc = "END" /\ outcome = "SUPPRESSED"
  /\ \E r \in store0 : r.gps # RunGps /\ r.timestamp > now - RECENT_DAYS
  /\ \E r \in store0 : r.gps = RunGps /\ r.timestamp <= now - RECENT_DAYS

HistoryCall == lastHistory.made /\ lastHistory.op = "get_location_history"

Range(seq) == {seq[i] : i \in DOMAIN seq}

\* C16: get_location_history(gps, limit) returns at most limit records,
\* every one of them with exactly that gps, and returns the empty list when
\* the store holds no record for that gps, whatever else it holds.
C16_HistoryExactness ==
  HistoryCall =>
    /\ Len(lastHistory.rows) <= lastHistory.limit
    /\ \A i \in DOMAIN lastHistory.rows :
         lastHistory.rows[i].gps = lastHistory.gps
    /\ OwnRecords(collection, lastHistory.gps) = {} => lastHistory.rows = <<>>

\* C17: the list returned by get_location_history has non-increasing
\* timestamps, and when the store holds more than limit records for the
\* location no record left out is newer than a returned one.
C17_HistoryOrdering ==
  (HistoryCall /\ ~lastHistory.raised) =>
    /\ \A i, j \in DOMAIN lastHistory.rows :
         i < j => lastHistory.rows[i].timestamp >= lastHistory.rows[j].timestamp
    /\ Cardinality(OwnRecords(collection, lastHistory.gps)) > lastHistory.limit
         => \A r \in OwnRecords(collection, lastHistory.gps)
                       \ Range(lastHistory.rows) :
              \A i \in DOMAIN lastHistory.rows :
                lastHistory.rows[i].timestamp >= r.timestamp

\* C18: the ids of the stored records are pairwise distinct, and a
\* save_report whose add did not fail leaves one record more in the store,
\* also when a record for the same location and clock value is there.
C18_RecordIdentity ==
  /\ \A r1, r2 \in collection : r1.id = r2.id => r1 = r2
  /\ (lastSave.made /\ lastSave.add = "stored") =>
       Cardinality(collection) = Cardinality(lastSave.before) + 1

\* C19: no step removes or changes a stored record, and a step that is a
\* was_recently_reported, get_location_history or get_all_reports call
\* leaves the store as it was.
C19_AppendOnly ==
  [][/\ collection \subseteq collection'
     /\ (lastCheck'.made \/ lastHistory'.made) => collection' = collection]_vars

C19_Witness ==
  /\ lastSave.made /\ lastSave.add = "stored"
  /\ \E r \in lastSave.before : r.gps = lastSave.gps
  /\ Cardinality(collection) = Cardinality(lastSave.before) + 1
  /\ lastHistory.made /\ lastHistory.op = "get_all_reports"
  /\ Len(lastHistory.rows) = Cardinality(collection)

\* C20: a was_recently_reported call for a location, made right after a
\* save_report for that location has stored its record and not failing
\* itself, sees that record and answers True.
C20_ReadYourWrites ==
  (/\ lastSave.made /\ lastSave.add = "stored"
   /\ lastCheck.made /\ ~lastCheck.raised
   /\ lastCheck.gps = lastSave.gps) => lastCheck.result

Logged(entry) ==
  \E i \in DOMAIN state["messages"] : state["messages"][i] = entry

SuppressionEntry ==
  <<"Prioritization Agent ->",
    "Location recently reported (within 7 days)", "suppressed">>

LowPriorityEntry ==
  <<"Prioritization Agent ->", "No significant hazards detected",
    "low priority">>

Tiers == {"LOW", "MEDIUM", "HIGH"}

\* C25 as claimed: the supervisor node makes no call to an external
\* collaborator or service, whether the image reference is there or not.
C25_IntakeCallsNothing ==
  (InRun /\ Len(path) >= 1) => calls.supervisor_llm = 0

\* C25 amended: the supervisor node makes one LLM call, whose reply or
\* failure only chooses an audit entry; the error flag and the route depend
\* on the image reference alone, and the node calls no classifier, no
\* severity assessor and no store function.
C25_IntakeDecidesOnFields ==
  (InRun /\ Len(path) >= 1) =>
    /\ calls.supervisor_llm = 1
    /\ state["error"] = NoImage(state)
    /\ Len(path) = 1 =>
         /\ pc = IF NoImage(state) THEN "END" ELSE "vision"
         /\ calls.classifier = 0 /\ calls.assessor = 0
         /\ calls.query = 0 /\ calls.save = 0
         /\ collection = store0

C25_Witness ==
  /\ pc = "vision" /\ Len(path) = 1
  /\ Logged(<<"Supervisor Agent ->",
              "Initiating road safety analysis pipeline">>)
  /\ ~state["error"]

ExpectedTier(reply) ==
  IF reply.raised \/ reply.content = <<>> THEN "HIGH"
  ELSE CASE reply.content[1] \in {"LOW", "low"} -> "LOW"
         [] reply.content[1] \in {"MEDIUM", "medium"} -> "MEDIUM"
         [] OTHER -> "HIGH"

\* C27: a severity set by prioritization is LOW, MEDIUM or HIGH; a reply
\* whose first word is one of the three gives that tier, any other reply,
\* an empty one and a failed call give HIGH.
C27_SeverityValid ==
  /\ "severity" \in DOMAIN state => state["severity"] \in Tiers
  /\ (pc = "prioritization" /\ NeedsAssessor(state, FALSE)) =>
       \A reply \in SeverityReplies :
         prioritization_node(state, FALSE, reply)["severity"]
           = ExpectedTier(reply)

C27_Witness ==
  /\ pc = "report"
  /\ state["severity"] = "MEDIUM"
  /\ Logged(<<"Prioritization Agent (Gemini) ->", "Severity assessed as",
              "MEDIUM", "proceed to report">>)

\* C28: route_supervisor reads the error flag only and route_prioritization
\* should_report only, and on the state a run returns they give the routes
\* the run took.
C28_RoutingRederivable ==
  InRun =>
    /\ route_supervisor(state)
         = route_supervisor([error |-> Get(state, "error", FALSE)])
    /\ route_prioritization(state)
         = route_prioritization(
             [should_report |-> Get(state, "should_report", FALSE)])
    /\ pc = "END" =>
         /\ route_supervisor(Result(state)) = "END" <=> Len(path) = 1
         /\ Len(path) >= 3 =>
              (route_prioritization(Result(state)) = "report"
                 <=> Len(path) = 4)

C28_Witness ==
  /\ pc = "END" /\ Len(path) = 4
  /\ route_supervisor(Result(state)) = "vision"
  /\ route_prioritization(Result(state)) = "report"

\* C29: a run that has not called save_report has left the store as it
\* found it, wherever it stands, ended or failed.
C29_SoleMutationPoint ==
  (InRun /\ calls.save = 0) =>
    /\ collection = store0
    /\ Len(path) < 4

C29_Witness ==
  /\ pc = "raised" /\ path = <<"supervisor", "vision">>
  /\ collection = store0 /\ collection # {}

IsPrefix(a, b) == Len(a) <= Len(b) /\ SubSeq(b, 1, Len(a)) = a

Owned(stage) ==
  CASE stage = "supervisor" -> {"messages", "error"}
    [] stage = "vision" -> {"messages", "hazards", "signs"}
    [] stage = "prioritization" -> {"messages", "should_report", "severity"}
    [] stage = "report" -> {"messages", "report"}
    [] OTHER -> {}

\* C30: a step of a node leaves the log it was given as a prefix of the
\* log it returns and changes no field but its own: error for supervisor,
\* hazards and signs for vision, should_report and severity for
\* prioritization, report for the report node.
C30_SingleWriter ==
  [][(pc \in {"supervisor", "vision", "prioritization", "report"}) =>
       /\ IsPrefix(state["messages"], state'["messages"])
       /\ \A k \in (DOMAIN state \cup DOMAIN state') \ Owned(pc) :
            /\ k \in DOMAIN state /\ k \in DOMAIN state'
            /\ state'[k] = state[k]]_vars

C30_Witness ==
  /\ pc = "END" /\ outcome = "REPORTED"
  /\ state["severity"] = "LOW"
  /\ Truthy(state["report"]) /\ ~state["error"]

\* C23: __main__ calls speak_professional only after a run that ended
\* REPORTED, never after an ABORTED, SUPPRESSED or LOW_PRIORITY run.
C23_NarratorOnlyAfterReported ==
  (caller.made /\ caller.narrator # <<>>) =>
    (pc = "END" /\ outcome = "REPORTED")

\* C24: __main__ calls send_to_authority at most once for a run, after the
\* graph has finished, and only when the run ended REPORTED and so added a
\* record for its location.
C24_NotifierOnlyAfterReported ==
  caller.made =>
    /\ RunOver
    /\ Len(caller.notifier) <= 1
    /\ caller.notifier # <<>> =>
         /\ pc = "END" /\ outcome = "REPORTED"
         /\ caller.notifier[1][1] = RunGps
         /\ \E r \in Added : r.gps = RunGps

C24_Witness ==
  /\ caller.made /\ Len(caller.notifier) = 1
  /\ outcome = "REPORTED"
  /\ OwnRecords(store0, RunGps) # {}

\* C22: a run that has started always comes to an end, returned or
\* raised, also when a classifier or severity-assessor call does not
\* return.
C22_NoIndefiniteBlocking ==
  (pc \in {"supervisor", "vision", "prioritization", "report"})
    ~> (pc \in {"END", "raised"})

\* both runs passed their recency check before either called save_report,
\* for the same location, and both are over
Raced ==
  /\ RunOver /\ PeerOver
  /\ Len(path) = 4 /\ Len(peer.path) = 4
  /\ peer.unsaved_at_check /\ peer.checked_at_save
  /\ Get(peer.state, "gps", "unknown") = RunGps

\* C21: two runs for one location that both passed the recency check
\* before either saved both end REPORTED and leave two records for the
\* location, with no run failed and no record lost.
C21_ConcurrentDuplicates ==
  Raced =>
    /\ pc = "END" /\ outcome = "REPORTED"
    /\ peer.pc = "END" /\ peer.outcome = "REPORTED"
    /\ Cardinality({r \in Added : r.gps = RunGps}) = 2

\* vision_node with the sign call finished and merged before the hazard
\* call; the two log entries are written after both, as in the node
SignsFirst(st, hazards, signs) ==
  LET s1 == Put(st, "signs", signs)
      s2 == Put(s1, "hazards", hazards)
      s3 == AppendMessage(s2, <<"Vision Agent ->">> \o hazards)
  IN  AppendMessage(s3, <<"Vision Agent ->">> \o signs)

\* C31: the state a vision step leaves is the state the step would leave
\* with the sign result merged before the hazard result: each result is in
\* its own field, and the hazard entry comes before the sign entry.
C31_DetectionCallsIndependent ==
  [][(pc = "vision" /\ pc' = "prioritization") =>
       \E hboxes \in HazardBoxes, sboxes \in SignBoxes :
         LET readable == Readable(state["image_path"])
             hazards == detect_road_hazards(readable, hboxes)
             signs == detect_and_assess_signs(readable, sboxes)
         IN  /\ state' = ApplyWrites(SignsFirst(state, hazards, signs))
             /\ state'["hazards"] = hazards
             /\ state'["signs"] = signs
             /\ calls'.classifier = calls.classifier + 2]_vars

C31_Witness ==
  /\ pc = "prioritization" /\ Len(path) = 2
  /\ Contains(state["hazards"], "pothole")
  /\ Contains(state["signs"], "hospital")
  /\ calls.classifier = 2

\* C32: with runs one at a time and no failed store query in the run, a
\* record a run adds is at least 7 days younger than every record the
\* store already held for the same location, whatever else the store holds.
C32_SequentialDeduplication ==
  (RunOver /\ Len(path) = 4 /\ calls.query_raised = 0) =>
    \A r \in Added, q \in store0 :
      q.gps = r.gps => r.timestamp - q.timestamp >= RECENT_DAYS

\* C33: in the state a run returns, the error flag comes with should_report
\* false and empty hazards, signs and report; should_report is true exactly
\* when the report is not empty, and exactly then the run has called
\* save_report once and the store holds one more record, for its location.
C33_FinalStateConsistency ==
  pc = "END" =>
    LET result == Result(state)
        appended == /\ calls.save = 1
                    /\ \E r \in Added : Added = {r} /\ r.gps = RunGps
    IN  /\ result["error"] =>
             /\ ~result["should_report"]
             /\ result["hazards"] = <<>> /\ result["signs"] = <<>>
             /\ result["report"] = <<>>
        /\ result["should_report"] <=> Truthy(result["report"])
        /\ Truthy(result["report"]) <=> appended
        /\ ~appended => (calls.save = 0 /\ Added = {})

C33_Witness ==
  /\ pc = "END" /\ Result(state)["should_report"]
  /\ Len(Result(state)["report"]) > 8
  /\ Cardinality(Added) = 1 /\ store0 # {}
  /\ ~Result(state)["error"]

\* C34: __main__ prints the notice "Location already reported within 7
\* days" only after a run that ended SUPPRESSED, never after a run that
\* ended LOW_PRIORITY.
C34_DuplicateNoticeOnlyAfterSuppressed ==
  (caller.made /\ caller.notice) =>
    (pc = "END" /\ outcome = "SUPPRESSED")

\* C35: after a REPORTED run the severity __main__ hands to
\* speak_professional and to send_to_authority is the tier
\* prioritization_node set in that run.
C35_SeverityPassThrough ==
  (caller.made /\ pc = "END" /\ outcome = "REPORTED") =>
    /\ Len(caller.notifier) = 1 /\ Len(caller.narrator) = 1
    /\ caller.notifier[1][2] = state["severity"]
    /\ caller.narrator[1][2] = Lower(state["severity"])

\* the stage that wrote a log entry, by the agent name the entry opens with
StageRank(entry) ==
  CASE entry[1] \in {"Supervisor Agent ->", "Supervisor Agent (Gemini) ->"}
         -> 1
    [] entry[1] = "Vision Agent ->" -> 2
    [] entry[1] \in {"Prioritization Agent ->",
                     "Prioritization Agent (Gemini) ->"} -> 3
    [] entry[1] = "Report Agent ->" -> 4
    [] OTHER -> 0

\* C36: in the state a run returns every log entry is there once, and the
\* entries stand in stage order: supervisor, vision, prioritization,
\* report.
C36_AuditLogOnceInOrder ==
  pc = "END" =>
    LET messages == Result(state)["messages"]
    IN  /\ \A i, j \in DOMAIN messages :
             i # j => messages[i] # messages[j]
        /\ \A i, j \in DOMAIN messages :
             i < j => StageRank(messages[i]) <= StageRank(messages[j])

====
